---- MODULE Spec2Model ----
(***************************************************************************)
(* Model of sync_pg_ch.py (src/postgrestoclickhouse/code.py): the account  *)
(* status classifier get_account_status_optimized, the value normalizer    *)
(* convert_row_for_ch, the table sync sync_pg_to_ch and the driver main.   *)
(*                                                                         *)
(* Python values are records tagged by their type (field t).  Calendar     *)
(* days are integers (day numbers); a datetime is a day plus seconds.      *)
(***************************************************************************)
EXTENDS Integers, Sequences, FiniteSets, TLC

VARIABLES
    \* ---- one call of get_account_status_optimized
    in_lad, in_onboard_status, in_ob_date, in_first_case_date,
    account_status,
    \* ---- datetime.date.today(), the evaluation date
    today,
    \* ---- the stores
    pg_client_group, pg_lead,      \* public.client_group, public.lead
    ch_studies, ch_clients,        \* transform.Studies, transform.Clients
    ch_columns,                    \* DESCRIBE TABLE t, per table
    ch_tables,                     \* rows held by each destination table
    \* ---- main
    pc, table_idx, run, pg_closed, ch_disconnected, exit_status,
    \* ---- the last call of sync_pg_to_ch
    sync_table, sync_outcome, rows, filtered_rows, insert_columns,
    lad_dict, onboard_dict, first_case_dict, enrich_failed,
    truncated,
    \* ---- what the previous run of main left behind
    first_run

classifier_vars == <<in_lad, in_onboard_status, in_ob_date, in_first_case_date,
                     account_status>>
store_vars == <<pg_client_group, pg_lead, ch_studies, ch_clients, ch_columns>>
main_vars == <<pc, table_idx, run, pg_closed, ch_disconnected, exit_status>>
call_vars == <<sync_table, sync_outcome, rows, filtered_rows, insert_columns,
               lad_dict, onboard_dict, first_case_dict, enrich_failed, truncated>>
vars == <<classifier_vars, today, store_vars, ch_tables, main_vars, call_vars,
          first_run>>

----------------------------------------------------------------------------
(* Python values *)

None == [t |-> "none"]
IntV(n) == [t |-> "int", n |-> n]
StrV(s) == [t |-> "str", s |-> s]
\* the text strftime('%Y-%m-%d') gives for day d
DateStr(d) == [t |-> "str", ymd |-> d]
Date(d) == [t |-> "date", day |-> d]
DateTime(d, secs) == [t |-> "datetime", day |-> d, secs |-> secs]
\* a value of any other type (Decimal, UUID, list ...), with its str()
OtherV(r) == [t |-> "other", repr |-> r]

IsNone(v) == v.t = "none"

----------------------------------------------------------------------------
(* Bounds of the classifier's inputs *)

Today == 40
MaxAge == 33

ActiveDays == 7
InactiveDays == 30
IncubationDays == 30

LadDays == (Today - MaxAge)..(Today + 1)
BaseDays == {Today - MaxAge - k : k \in {29, 30, 31}} \cup {Today - MaxAge, Today}
DaySeconds == {0, 86399}

LadValues ==
    {None, StrV("n/a")}
      \cup {Date(d) : d \in LadDays}
      \cup {DateTime(d, s) : d \in LadDays, s \in DaySeconds}
      \cup {DateStr(d) : d \in LadDays}
BaseValues ==
    {None} \cup {Date(d) : d \in BaseDays} \cup {DateTime(d, 0) : d \in BaseDays}
OnboardStatusValues == {StrV("Yet To Onboard"), StrV("Onboarded"), None}

----------------------------------------------------------------------------
(* get_account_status_optimized *)

YetToOnboard == StrV("Yet To Onboard")
StillBorn == StrV("Still Born/Not started")
Active == StrV("Active")
InActive == StrV("In-Active")
IncubationChurn == StrV("Incubation Churn")
PostD30Churn == StrV("Post D30 Churn")
Churned == StrV("Churned")
Unknown == StrV("Unknown")

\* datetime.datetime -> .date(); anything else unchanged
ToDate(v) == IF v.t = "datetime" THEN Date(v.day) ELSE v

\* strptime(lad, '%Y-%m-%d') succeeds exactly on the texts DateStr gives
ParsesAsDate(v) == v.t = "str" /\ "ymd" \in DOMAIN v

\* lines 47-54: lad as a date, or None when the string does not parse
NormalizeLad(v) ==
    IF v.t = "datetime" THEN Date(v.day)
    ELSE IF v.t = "str"
         THEN IF ParsesAsDate(v) THEN Date(v.ymd) ELSE None
         ELSE v

IsActiveMut(lad_day) == lad_day > today - ActiveDays
\* line 59
IsActive(lad_day) == lad_day >= today - ActiveDays

\* line 63
IsInActive(lad_day) ==
    lad_day < today - ActiveDays /\ lad_day >= today - InactiveDays

\* line 67
IsChurn(lad_day) == lad_day < today - InactiveDays

ChurnStatusMut(lad_day, ob_date, first_case_date) ==
    LET ob == ToDate(ob_date)
        fc == ToDate(first_case_date)
        candidates == {d \in {ob, fc} : ~IsNone(d)}
    IN  IF candidates # {}
        THEN LET base_date == CHOOSE d \in candidates :
                                  \A e \in candidates : d.day <= e.day
                 diff_days == lad_day - base_date.day
             IN  IF diff_days < IncubationDays THEN IncubationChurn
                 ELSE PostD30Churn
        ELSE Churned
\* lines 68-84
ChurnStatus(lad_day, ob_date, first_case_date) ==
    LET ob == ToDate(ob_date)
        fc == ToDate(first_case_date)
        candidates == {d \in {ob, fc} : ~IsNone(d)}
    IN  IF candidates # {}
        THEN LET base_date == CHOOSE d \in candidates :
                                  \A e \in candidates : d.day >= e.day
                 diff_days == lad_day - base_date.day
             IN  IF diff_days < IncubationDays THEN IncubationChurn
                 ELSE PostD30Churn
        ELSE Churned

\* lines 56-86
RecencyStatus(lad_day, ob_date, first_case_date) ==
    IF IsActive(lad_day) THEN Active
    ELSE IF IsInActive(lad_day) THEN InActive
    ELSE IF IsChurn(lad_day) THEN ChurnStatus(lad_day, ob_date, first_case_date)
    ELSE Unknown

get_account_status_ladfirst(lad, onboard_status, ob_date, first_case_date) ==
    IF IsNone(lad) THEN StillBorn
    ELSE IF onboard_status = YetToOnboard THEN YetToOnboard
    ELSE IF IsNone(NormalizeLad(lad)) THEN StillBorn
    ELSE RecencyStatus(NormalizeLad(lad).day, ob_date, first_case_date)
get_account_status_nonecheck(lad, onboard_status, ob_date, first_case_date) ==
    IF onboard_status = YetToOnboard THEN YetToOnboard
    ELSE IF IsNone(NormalizeLad(lad)) THEN Churned
    ELSE RecencyStatus(NormalizeLad(lad).day, ob_date, first_case_date)
\* lines 35-86
get_account_status_optimized(lad, onboard_status, ob_date, first_case_date) ==
    IF onboard_status = YetToOnboard THEN YetToOnboard
    ELSE IF IsNone(lad) THEN StillBorn
    ELSE IF IsNone(NormalizeLad(lad)) THEN StillBorn
    ELSE RecencyStatus(NormalizeLad(lad).day, ob_date, first_case_date)

----------------------------------------------------------------------------
(* convert_row_for_ch and the projection of sync_pg_to_ch *)

\* lines 21-29: one value
ConvertValue(val) == IF val.t = "other" THEN StrV(val.repr) ELSE val

\* lines 14-30: the values of row for columns, in the order of columns
convert_row_for_ch(row, columns) ==
    [i \in 1..Len(columns) |-> ConvertValue(row[columns[i]])]

IsKey(row, col) == col \in DOMAIN row

FilterKeysHelper(row, ch_cols) ==
    SelectSeq(ch_cols \o <<"onboard_status">>, LAMBDA col : col \in DOMAIN row)
\* lines 221-223: the keys of filtered_row, a dict built in the order of
\* ch_columns from the columns the row has
FilterKeys(row, ch_cols) == SelectSeq(ch_cols, LAMBDA col : IsKey(row, col))

\* lines 218-224
Project(rws, ch_cols) ==
    [i \in 1..Len(rws) |-> convert_row_for_ch(rws[i], FilterKeys(rws[i], ch_cols))]

----------------------------------------------------------------------------
(* The stores *)

TABLES == <<"client_group", "lead">>

MaxRows == 1

Clients == {1, 2}

\* a row of public.client_group
CgRow(c) == [client_fk |-> IntV(c), meta |-> OtherV("m")]
\* a row of public.lead
LeadRow(c, existing, stage) ==
    [client_fk |-> IntV(c), existing_client |-> existing, stage |-> StrV(stage)]

RECURSIVE SeqsUpTo(_, _)
\* the sequences over S of length at most n
SeqsUpTo(S, n) ==
    IF n = 0 THEN {<< >>}
    ELSE LET shorter == SeqsUpTo(S, n - 1)
         IN  shorter \cup {Append(q, x) : q \in shorter, x \in S}

ClientGroupChoices == SeqsUpTo({CgRow(c) : c \in Clients}, MaxRows)
LeadChoices ==
    {<< >>, <<LeadRow(1, None, "New")>>, <<LeadRow(1, None, "Onboarded")>>,
     <<LeadRow(1, IntV(9), "New")>>}

Study(c, d, status) ==
    [client_fk |-> c, created_at |-> DateTime(d, 0), status |-> status]
StudyUniverse ==
    {Study(1, Today - 3, "COMPLETED"), Study(1, Today - 45, "COMPLETED"),
     Study(1, Today - 3, "PENDING")}
StudiesChoices == {S \in SUBSET StudyUniverse : Cardinality(S) <= 2}

EmptyDict == [c \in {} |-> None]
ClientsChoices == {EmptyDict, [c \in {1} |-> DateTime(Today - 50, 0)]}

ClientGroupSchemas ==
    {<<"client_fk", "meta", "account_status">>,
     <<"account_status", "client_fk">>,
     <<"client_fk", "region", "account_status">>}
LeadSchemas == {<<"stage", "client_fk">>, <<"client_fk", "note", "stage">>}

\* what a destination table holds before the first run
StaleRows == << <<StrV("stale")>> >>

----------------------------------------------------------------------------
(* The queries of sync_pg_to_ch *)

RECURSIVE Flatten(_)
Flatten(ss) == IF ss = << >> THEN << >> ELSE Head(ss) \o Flatten(Tail(ss))

\* the lead columns of a client_group row the LEFT JOIN matched with no lead
NullLead == [client_fk |-> None, existing_client |-> None, stage |-> None]

\* lines 105-111: the CASE of the client_group query on the joined lead l;
\* a comparison with NULL is not true
OnboardStatusOf(l) ==
    IF IsNone(l.existing_client) /\ ~IsNone(l.client_fk)
         /\ ~IsNone(l.stage) /\ l.stage # StrV("Onboarded")
    THEN StrV("Yet To Onboard")
    ELSE StrV("Onboarded")

\* lines 103-117: client_group LEFT JOIN lead ON client_fk
ClientGroupQuery ==
    Flatten([i \in 1..Len(pg_client_group) |->
        LET cg == pg_client_group[i]
            leads == SelectSeq(pg_lead, LAMBDA l : l.client_fk = cg.client_fk)
        IN  IF leads = << >>
            THEN << ("onboard_status" :> OnboardStatusOf(NullLead)) @@ cg >>
            ELSE [j \in 1..Len(leads) |->
                     ("onboard_status" :> OnboardStatusOf(leads[j])) @@ cg]])

\* lines 103-117 and 208-209
SourceQuery(table_name) ==
    IF table_name = "client_group" THEN ClientGroupQuery ELSE pg_lead

\* the studies the WHERE clause of lines 140 and 161 keeps
CompletedStudies(client_fks) ==
    {e \in ch_studies : e.client_fk \in client_fks /\ e.status = "COMPLETED"}

NotBefore(a, b) == a.day > b.day \/ (a.day = b.day /\ a.secs >= b.secs)

\* lines 135-144: MAX(created_at) GROUP BY client_fk
LadQuery(client_fks) ==
    LET done == CompletedStudies(client_fks)
    IN  [c \in {e.client_fk : e \in done} |->
            LET at == {e.created_at : e \in {x \in done : x.client_fk = c}}
            IN  CHOOSE m \in at : \A o \in at : NotBefore(m, o)]

\* lines 147-153
OnboardQuery(client_fks) ==
    [c \in (DOMAIN ch_clients) \cap client_fks |-> ch_clients[c]]

\* lines 156-165: MIN(created_at) GROUP BY client_fk
FirstCaseQuery(client_fks) ==
    LET done == CompletedStudies(client_fks)
    IN  [c \in {e.client_fk : e \in done} |->
            LET at == {e.created_at : e \in {x \in done : x.client_fk = c}}
            IN  CHOOSE m \in at : \A o \in at : NotBefore(o, m)]

NoData == [lad |-> EmptyDict, onboard |-> EmptyDict, first_case |-> EmptyDict]

BatchFetchKeep(client_fks, fail) ==
    IF client_fks = {} THEN NoData
    ELSE [lad |-> IF fail \in {0, 2, 3} THEN LadQuery(client_fks) ELSE EmptyDict,
          onboard |-> IF fail \in {0, 3} THEN OnboardQuery(client_fks) ELSE EmptyDict,
          first_case |-> IF fail = 0 THEN FirstCaseQuery(client_fks) ELSE EmptyDict]
\* lines 129-178: the three batch queries; fail is the query that raises
\* (1, 2 or 3), or 0 when none does
BatchFetch(client_fks, fail) ==
    IF client_fks = {} THEN NoData
    ELSE IF fail = 0
         THEN [lad |-> LadQuery(client_fks),
               onboard |-> OnboardQuery(client_fks),
               first_case |-> FirstCaseQuery(client_fks)]
         ELSE NoData

\* dict.get(key): None when the key is absent
DictGet(dict, key) == IF key \in DOMAIN dict THEN dict[key] ELSE None

\* lines 181-203
Enhance(src, d) ==
    [i \in 1..Len(src) |->
        LET client_fk == src[i].client_fk.n
        IN  ("account_status" :>
                get_account_status_optimized(
                    DictGet(d.lad, client_fk), src[i].onboard_status,
                    DictGet(d.onboard, client_fk),
                    DictGet(d.first_case, client_fk)))
            @@ src[i]]

----------------------------------------------------------------------------
(* sync_pg_to_ch *)

\* where a call can be cut short by an exception or an interrupt that
\* propagates to the caller: the DESCRIBE, the source query, the processing
\* in between, the TRUNCATE, the INSERT
RaiseAt == {"none", "describe", "select", "interrupt", "truncate", "insert"}

\* the driver binds the values of a tuple to the columns the INSERT names,
\* by position, and refuses rows of another length
DriverAccepts(columns, data) == \A i \in 1..Len(data) : Len(data[i]) = Len(columns)

AfterTruncateKeep(old, data) == old \o data
\* lines 228-232: the table after TRUNCATE and INSERT of data
AfterTruncateInsert(old, data) == data

\* the batch query that raises: the first, second or third, or none (0);
\* only client_group runs them
BatchFailures(table_name) == IF table_name = "client_group" THEN 0..3 ELSE {0}

\* lines 91-234: one call, as the record of what it leaves behind.
\* fail: the batch query that raises (0: none); raise_at: see RaiseAt.
SyncCall(table_name, fail, raise_at) ==
    LET cols == ch_columns[table_name]
        src == SourceQuery(table_name)
        enrich == table_name = "client_group"
        client_fks == {src[i].client_fk.n : i \in 1..Len(src)}
        d == IF enrich THEN BatchFetch(client_fks, fail) ELSE NoData
        rws == IF enrich THEN Enhance(src, d) ELSE src
        data == Project(rws, cols)
        old == ch_tables[table_name]
        idle == [outcome |-> "raised", raised_by |-> "store", rows |-> << >>,
                 data |-> << >>, columns |-> << >>, dicts |-> NoData,
                 failed |-> 0, truncated |-> FALSE, table |-> old]
        fetched == [idle EXCEPT !.rows = rws, !.dicts = d,
                                !.failed = IF enrich THEN fail ELSE 0]
    IN  IF raise_at \in {"describe", "select"} THEN idle
        ELSE IF src = << >>
        THEN [idle EXCEPT !.outcome = "skipped", !.raised_by = "none"]
        ELSE IF raise_at \in {"interrupt", "truncate"} THEN idle
        ELSE IF raise_at = "insert"
        THEN [fetched EXCEPT !.truncated = TRUE, !.table = << >>,
                             !.data = data, !.columns = cols]
        ELSE IF ~DriverAccepts(cols, data)
        THEN [fetched EXCEPT !.raised_by = "driver", !.truncated = TRUE,
                             !.table = << >>, !.data = data, !.columns = cols]
        ELSE [fetched EXCEPT !.outcome = "ok", !.raised_by = "none",
                             !.truncated = TRUE, !.data = data, !.columns = cols,
                             !.table = AfterTruncateInsert(old, data)]

----------------------------------------------------------------------------
(* main *)

Runs == {1, 2}

AfterRaiseNoFinally == "exit"
\* lines 256-262: where an exception out of the loop goes (try/finally)
AfterRaise == "close_pg"

NoRun == [status |-> "none", degraded |-> FALSE,
          tables |-> [t \in {"client_group", "lead"} |-> << >>]]

InitCall ==
    /\ sync_table = "none"
    /\ sync_outcome = [outcome |-> "none", raised_by |-> "none"]
    /\ rows = << >>
    /\ filtered_rows = << >>
    /\ insert_columns = << >>
    /\ lad_dict = EmptyDict
    /\ onboard_dict = EmptyDict
    /\ first_case_dict = EmptyDict
    /\ enrich_failed = 0
    /\ truncated = FALSE

\* lines 240-254: both connections opened
InitMain ==
    /\ pc = "loop"
    /\ table_idx = 1
    /\ run = 1
    /\ pg_closed = 0
    /\ ch_disconnected = 0
    /\ exit_status = [status |-> "running", degraded |-> FALSE]
    /\ first_run = NoRun

InitClassifierIdle ==
    /\ in_lad = None
    /\ in_onboard_status = None
    /\ in_ob_date = None
    /\ in_first_case_date = None
    /\ account_status = None

InitSync ==
    /\ InitClassifierIdle
    /\ today = Today
    /\ pg_client_group \in ClientGroupChoices
    /\ pg_lead \in LeadChoices
    /\ ch_studies \in StudiesChoices
    /\ ch_clients \in ClientsChoices
    /\ ch_columns \in [client_group : ClientGroupSchemas, lead : LeadSchemas]
    /\ ch_tables = [client_group |-> StaleRows, lead |-> StaleRows]
    /\ InitMain
    /\ InitCall

\* lines 257-258: the next table of TABLES is synced
sync_pg_to_ch ==
    /\ pc = "loop"
    /\ table_idx <= Len(TABLES)
    /\ \E raise_at \in RaiseAt, fail \in BatchFailures(TABLES[table_idx]) :
         LET table_name == TABLES[table_idx]
             r == SyncCall(table_name, fail, raise_at)
         IN  /\ sync_table' = table_name
             /\ sync_outcome' = [outcome |-> r.outcome, raised_by |-> r.raised_by]
             /\ rows' = r.rows
             /\ filtered_rows' = r.data
             /\ insert_columns' = r.columns
             /\ lad_dict' = r.dicts.lad
             /\ onboard_dict' = r.dicts.onboard
             /\ first_case_dict' = r.dicts.first_case
             /\ enrich_failed' = r.failed
             /\ truncated' = r.truncated
             /\ ch_tables' = [ch_tables EXCEPT ![table_name] = r.table]
             /\ IF r.outcome = "raised"
                THEN /\ pc' = AfterRaise
                     /\ exit_status' = [exit_status EXCEPT !.status = "raised"]
                     /\ table_idx' = table_idx
                ELSE /\ pc' = pc
                     /\ exit_status' =
                          [exit_status EXCEPT
                             !.degraded = exit_status.degraded \/ r.failed # 0]
                     /\ table_idx' = table_idx + 1
    /\ UNCHANGED <<classifier_vars, today, store_vars, run, pg_closed,
                   ch_disconnected, first_run>>

\* line 259: every table synced
LoopDone ==
    /\ pc = "loop"
    /\ table_idx > Len(TABLES)
    /\ pc' = "close_pg"
    /\ exit_status' = [exit_status EXCEPT !.status = "ok"]
    /\ UNCHANGED <<classifier_vars, today, store_vars, ch_tables, table_idx, run,
                   pg_closed, ch_disconnected, call_vars, first_run>>

ResetCall ==
    /\ sync_table' = "none"
    /\ sync_outcome' = [outcome |-> "none", raised_by |-> "none"]
    /\ rows' = << >>
    /\ filtered_rows' = << >>
    /\ insert_columns' = << >>
    /\ lad_dict' = EmptyDict
    /\ onboard_dict' = EmptyDict
    /\ first_case_dict' = EmptyDict
    /\ enrich_failed' = 0
    /\ truncated' = FALSE

\* line 261; the locals of the last sync_pg_to_ch call are gone by now
ClosePg ==
    /\ pc = "close_pg"
    /\ pg_closed' = pg_closed + 1
    /\ pc' = "disconnect_ch"
    /\ ResetCall
    /\ UNCHANGED <<classifier_vars, today, store_vars, ch_tables, table_idx, run,
                   ch_disconnected, exit_status, first_run>>

\* line 262
DisconnectCh ==
    /\ pc = "disconnect_ch"
    /\ ch_disconnected' = ch_disconnected + 1
    /\ pc' = "exit"
    /\ UNCHANGED <<classifier_vars, today, store_vars, ch_tables, table_idx, run,
                   pg_closed, exit_status, call_vars, first_run>>

\* lines 264-265: the script is run again, on the stores as the run before
\* left them
RunAgain ==
    /\ pc = "exit"
    /\ run + 1 \in Runs
    /\ first_run' = [status |-> exit_status.status,
                     degraded |-> exit_status.degraded, tables |-> ch_tables]
    /\ run' = run + 1
    /\ pc' = "loop"
    /\ table_idx' = 1
    /\ pg_closed' = 0
    /\ ch_disconnected' = 0
    /\ exit_status' = [status |-> "running", degraded |-> FALSE]
    /\ UNCHANGED <<classifier_vars, today, store_vars, ch_tables, call_vars>>

NextSync == sync_pg_to_ch \/ LoopDone \/ ClosePg \/ DisconnectCh \/ RunAgain

SpecSync == InitSync /\ [][NextSync]_vars

----------------------------------------------------------------------------
(* The classifier on its own: one call on inputs drawn from the bounded sets *)

InitClassify ==
    /\ in_lad \in LadValues
    /\ in_onboard_status \in OnboardStatusValues
    /\ in_ob_date \in BaseValues
    /\ in_first_case_date \in BaseValues
    /\ account_status = None
    /\ today = Today
    /\ pg_client_group = << >>
    /\ pg_lead = << >>
    /\ ch_studies = {}
    /\ ch_clients = EmptyDict
    /\ ch_columns = [client_group |-> << >>, lead |-> << >>]
    /\ ch_tables = [client_group |-> << >>, lead |-> << >>]
    /\ InitMain
    /\ InitCall

Classify ==
    /\ account_status = None
    /\ account_status' = get_account_status_optimized(
                             in_lad, in_onboard_status, in_ob_date,
                             in_first_case_date)
    /\ UNCHANGED <<in_lad, in_onboard_status, in_ob_date, in_first_case_date,
                   today, store_vars, ch_tables, main_vars, call_vars, first_run>>

NextClassify == Classify

SpecClassify == InitClassify /\ [][NextClassify]_vars

----------------------------------------------------------------------------
(* Properties of get_account_status_optimized, under SpecClassify *)

Returned == account_status # None
IsCalendarDate(v) == v.t \in {"date", "datetime"}
ChurnLabels == {IncubationChurn, PostD30Churn, Churned}

\* C1: whenever onboard_status is 'Yet To Onboard' the classifier returns
\* 'Yet To Onboard', whatever lad, ob_date and first_case_date are.
C1_GateWins ==
    (Returned /\ in_onboard_status = StrV("Yet To Onboard"))
        => account_status = StrV("Yet To Onboard")

C1_Witness ==
    /\ in_onboard_status = StrV("Yet To Onboard")
    /\ in_lad.t = "date" /\ in_lad.day < today - 30
    /\ ~IsNone(in_ob_date) /\ IsNone(in_first_case_date)
    /\ account_status = StrV("Yet To Onboard")

\* C2 as stated: whenever lad is None the classifier returns
\* 'Still Born/Not started', whatever onboard_status is.
C2_NoneIsStillBorn_AsStated ==
    (Returned /\ IsNone(in_lad)) => account_status = StrV("Still Born/Not started")

\* C2 amended: whenever lad is None and onboard_status is not
\* 'Yet To Onboard', the classifier returns 'Still Born/Not started',
\* whatever ob_date and first_case_date are.
C2_NoneIsStillBorn ==
    (Returned /\ IsNone(in_lad) /\ in_onboard_status # StrV("Yet To Onboard"))
        => account_status = StrV("Still Born/Not started")

C2_Witness ==
    /\ IsNone(in_lad)
    /\ in_onboard_status = StrV("Onboarded")
    /\ ~IsNone(in_ob_date) /\ ~IsNone(in_first_case_date)
    /\ account_status = StrV("Still Born/Not started")

\* C3: for lad a calendar date and onboard_status not 'Yet To Onboard' the
\* result is 'Active' iff lad >= today - 7, 'In-Active' iff
\* today - 30 <= lad < today - 7, a churn label iff lad < today - 30, and
\* never 'Unknown'.
C3_RecencyPartition ==
    (Returned /\ IsCalendarDate(in_lad) /\ in_onboard_status # StrV("Yet To Onboard"))
        => /\ account_status = StrV("Active") <=> in_lad.day >= today - 7
           /\ account_status = StrV("In-Active")
                <=> (today - 30 <= in_lad.day /\ in_lad.day < today - 7)
           /\ account_status \in ChurnLabels <=> in_lad.day < today - 30
           /\ account_status # StrV("Unknown")

C3_Witness ==
    /\ in_onboard_status = StrV("Onboarded")
    /\ in_lad = Date(today - 30)
    /\ account_status = StrV("In-Active")

\* C4: in the churn range (lad a date before today - 30, onboard_status not
\* 'Yet To Onboard') the result is 'Churned' iff ob_date and first_case_date
\* are both absent; otherwise, with baseDate the later of those present, it
\* is 'Incubation Churn' iff lad - baseDate < 30 days and 'Post D30 Churn'
\* iff lad - baseDate >= 30 days.
C4_ChurnSplit ==
    (Returned /\ IsCalendarDate(in_lad) /\ in_lad.day < today - 30
       /\ in_onboard_status # StrV("Yet To Onboard"))
        => IF IsNone(in_ob_date) /\ IsNone(in_first_case_date)
           THEN account_status = StrV("Churned")
           ELSE LET base == IF IsNone(in_ob_date) THEN in_first_case_date.day
                            ELSE IF IsNone(in_first_case_date) THEN in_ob_date.day
                            ELSE IF in_ob_date.day >= in_first_case_date.day
                                 THEN in_ob_date.day
                                 ELSE in_first_case_date.day
                    diff == in_lad.day - base
                IN  /\ account_status = StrV("Incubation Churn") <=> diff < 30
                    /\ account_status = StrV("Post D30 Churn") <=> diff >= 30
                    /\ account_status # StrV("Churned")

C4_Witness ==
    /\ IsCalendarDate(in_lad) /\ in_lad.day < today - 30
    /\ in_onboard_status = StrV("Onboarded")
    /\ ~IsNone(in_ob_date) /\ ~IsNone(in_first_case_date)
    /\ in_ob_date.day < in_first_case_date.day
    /\ in_lad.day - in_first_case_date.day < 0
    /\ account_status = StrV("Incubation Churn")

----------------------------------------------------------------------------
(* Properties of sync_pg_to_ch and main, under SpecSync *)

\* the INSERT of the last call was issued
InsertIssued == insert_columns # << >>

\* C5: when one of the three batch queries of a client_group sync fails, all
\* three mappings are empty, every row gets 'Yet To Onboard' or
\* 'Still Born/Not started', and the failure does not abort the sync: unless
\* something else raises, the table is truncated and the rows inserted.
C5_EnrichmentFailure ==
    (sync_table = "client_group" /\ enrich_failed \in 1..3)
        => /\ lad_dict = EmptyDict
           /\ onboard_dict = EmptyDict
           /\ first_case_dict = EmptyDict
           /\ rows # << >>
           /\ \A i \in 1..Len(rows) :
                rows[i].account_status \in
                    {StrV("Yet To Onboard"), StrV("Still Born/Not started")}
           /\ sync_outcome.raised_by = "none"
                => /\ sync_outcome.outcome = "ok"
                   /\ truncated
                   /\ InsertIssued
                   /\ ch_tables.client_group = filtered_rows

C5_Witness ==
    /\ sync_table = "client_group"
    /\ enrich_failed = 3
    /\ sync_outcome.outcome = "ok"
    /\ \E e \in ch_studies :
         /\ e.status = "COMPLETED"
         /\ e.client_fk = rows[1].client_fk.n
         /\ e.created_at.day >= today - 7
    /\ 1 \in DOMAIN ch_clients
    /\ rows[1].account_status = StrV("Still Born/Not started")

\* C6: every tuple built by the projection holds the values of exactly the
\* destination columns the row has, in the order of the destination list; a
\* destination column the row lacks is left out, a source column outside the
\* destination list never appears.
C6_Projection ==
    InsertIssued
        => /\ Len(filtered_rows) = Len(rows)
           /\ \A i \in 1..Len(filtered_rows) :
                LET row == rows[i]
                    tuple == filtered_rows[i]
                    present == {j \in 1..Len(insert_columns) :
                                    insert_columns[j] \in DOMAIN row}
                    Rank(j) == Cardinality({k \in present : k <= j})
                IN  /\ Len(tuple) = Cardinality(present)
                    /\ \A j \in present :
                         tuple[Rank(j)] = ConvertValue(row[insert_columns[j]])

C6_Witness ==
    /\ InsertIssued
    /\ sync_table = "client_group"
    /\ insert_columns = <<"client_fk", "region", "account_status">>
    /\ "onboard_status" \in DOMAIN rows[1]
    /\ filtered_rows[1] = <<rows[1].client_fk, rows[1].account_status>>

\* the destination tables as multisets of rows
BagOf(seq) ==
    [x \in {seq[i] : i \in 1..Len(seq)} |->
        Cardinality({i \in 1..Len(seq) : seq[i] = x})]

BothRunsCompleted ==
    /\ pc = "exit" /\ run = 2
    /\ exit_status.status = "ok" /\ first_run.status = "ok"

C8_FullReplace_AsStated ==
    sync_outcome.outcome \in {"ok", "skipped"}
        => ch_tables[sync_table] = filtered_rows

\* C8 amended: a call that returns without raising on a non-empty source
\* row set leaves in the table exactly the rows built from that call's
\* source query, one per source row, and none of the rows held before; on an
\* empty source row set it returns without truncating and the table keeps
\* the rows it held.
C8_FullReplace ==
    [][ (pc = "loop" /\ table_idx <= Len(TABLES))
          => LET t == TABLES[table_idx]
             IN  /\ sync_outcome'.outcome = "ok"
                      => /\ SourceQuery(t) # << >>
                         /\ truncated'
                         /\ Len(filtered_rows') = Len(SourceQuery(t))
                         /\ ch_tables'[t] = filtered_rows'
                 /\ sync_outcome'.outcome = "skipped"
                      => /\ SourceQuery(t) = << >>
                         /\ ~truncated'
                         /\ ch_tables'[t] = ch_tables[t] ]_vars

C8_Witness ==
    /\ sync_outcome.outcome = "ok"
    /\ run = 2
    /\ first_run.tables[sync_table] # << >>
    /\ ch_tables[sync_table] = filtered_rows
    /\ Len(filtered_rows) = 1

\* C9: when main has exited, the source connection was closed exactly once
\* and the destination client disconnected exactly once, also when a table
\* sync raised; and once either is released no table sync can start.
C9_ReleasedOnce ==
    /\ pc = "exit" => (pg_closed = 1 /\ ch_disconnected = 1)
    /\ pg_closed <= 1 /\ ch_disconnected <= 1
    /\ (pg_closed > 0 \/ ch_disconnected > 0) => pc # "loop"

C9_Witness ==
    /\ pc = "exit"
    /\ exit_status.status = "raised"
    /\ table_idx = 1
    /\ pg_closed = 1 /\ ch_disconnected = 1

\* C10: every tuple passed to the INSERT has as many values as the INSERT
\* names columns, and its i-th value is the row's value for the i-th named
\* column.
C10_TuplesMatchColumns ==
    InsertIssued
        => \A i \in 1..Len(filtered_rows) :
              /\ Len(filtered_rows[i]) = Len(insert_columns)
              /\ \A j \in 1..Len(insert_columns) :
                   /\ insert_columns[j] \in DOMAIN rows[i]
                   /\ filtered_rows[i][j] = ConvertValue(rows[i][insert_columns[j]])

====
